---- MODULE Spec2Model ----
(***************************************************************************)
(* Model of the ls tool of unix-tools-go (internal/ls/ls.go and            *)
(* internal/ls/common.go): ls.Run reads a directory, sorts the entries,    *)
(* and renders them either as a multi-column grid or as a long listing.    *)
(*                                                                         *)
(* Strings are sequences of Unicode code points.  Go compares strings      *)
(* byte by byte; UTF-8 preserves code point order, so the lexicographic    *)
(* order of code point sequences is the byte order of the strings.         *)
(* len(s) of Go is the UTF-8 byte length, Utf8Len below.                   *)
(***************************************************************************)
EXTENDS Integers, Sequences, FiniteSets, TLC

(***************************************************************************)
(* Bounds of the model.                                                    *)
(***************************************************************************)
\* largest number of entries of a sampled directory
MaxEntries == 3

(***************************************************************************)
(* Strings.                                                                *)
(***************************************************************************)
\* number of bytes of the UTF-8 encoding of one code point
RuneLen(r) ==
    IF r < 128 THEN 1 ELSE IF r < 2048 THEN 2 ELSE IF r < 65536 THEN 3 ELSE 4

RECURSIVE Utf8Len(_)
\* len(s) of Go: the length of s in bytes
Utf8Len(s) == IF s = <<>> THEN 0 ELSE RuneLen(Head(s)) + Utf8Len(Tail(s))

\* strings.ToLower on the code points the model uses (ASCII letters fold,
\* every other code point of the sampled names has no case mapping)
ToLower(s) == [i \in 1..Len(s) |-> IF s[i] >= 65 /\ s[i] <= 90 THEN s[i] + 32 ELSE s[i]]

\* a < b on Go strings
StrLess(a, b) ==
    \E k \in 1..(Len(b)) :
        /\ \A j \in 1..(k - 1) : j <= Len(a) /\ a[j] = b[j]
        /\ k - 1 <= Len(a)
        /\ (k > Len(a) \/ a[k] < b[k])

\* filepath.Ext: the suffix starting at the last dot of the last path element
Ext(path) ==
    LET stops == {i \in 1..Len(path) : path[i] = 46 \/ path[i] = 47}
        last  == CHOOSE i \in stops : \A j \in stops : j <= i
    IN  IF stops = {} THEN <<>>
        ELSE IF path[last] = 46 THEN SubSeq(path, last, Len(path)) ELSE <<>>

\* n spaces
Spaces(n) == [i \in 1..n |-> 32]

\* a padding that also puts a separating space after every column
PadRightExtra(s, w) == (IF Len(s) >= w THEN s ELSE s \o Spaces(w - Len(s))) \o <<32>>

\* fmt's %-*s: s left-aligned and padded with spaces to w characters (runes)
PadRight(s, w) == IF Len(s) >= w THEN s ELSE s \o Spaces(w - Len(s))

(***************************************************************************)
(* common.go: the icon table and the classifier.                           *)
(***************************************************************************)
iconMap ==
       (<<46, 109, 100>> :> <<983892, 32>>)   \* ".md"
    @@ (<<46, 116, 120, 116>> :> <<61788, 32>>)   \* ".txt"
    @@ (<<46, 100, 111, 99>> :> <<983596, 32>>)   \* ".doc"
    @@ (<<46, 100, 111, 99, 120>> :> <<983596, 32>>)   \* ".docx"
    @@ (<<46, 112, 100, 102>> :> <<59005, 32>>)   \* ".pdf"
    @@ (<<46, 120, 108, 115>> :> <<983579, 32>>)   \* ".xls"
    @@ (<<46, 120, 108, 115, 120>> :> <<983579, 32>>)   \* ".xlsx"
    @@ (<<46, 112, 112, 116>> :> <<983591, 32>>)   \* ".ppt"
    @@ (<<46, 112, 112, 116, 120>> :> <<983591, 32>>)   \* ".pptx"
    @@ (<<46, 114, 116, 102>> :> <<61788, 32>>)   \* ".rtf"
    @@ (<<46, 111, 100, 116>> :> <<983596, 32>>)   \* ".odt"
    @@ (<<46, 111, 100, 115>> :> <<983579, 32>>)   \* ".ods"
    @@ (<<46, 111, 100, 112>> :> <<983591, 32>>)   \* ".odp"
    @@ (<<46, 99, 115, 118>> :> <<58954, 32>>)   \* ".csv"
    @@ (<<46, 116, 115, 118>> :> <<58954, 32>>)   \* ".tsv"
    @@ (<<46, 104, 116, 109, 108>> :> <<58894, 32>>)   \* ".html"
    @@ (<<46, 104, 116, 109>> :> <<58894, 32>>)   \* ".htm"
    @@ (<<46, 120, 109, 108>> :> <<984512, 32>>)   \* ".xml"
    @@ (<<46, 120, 104, 116, 109, 108>> :> <<984512, 32>>)   \* ".xhtml"
    @@ (<<46, 99, 115, 115>> :> <<59209, 32>>)   \* ".css"
    @@ (<<46, 106, 115>> :> <<62191, 32>>)   \* ".js"
    @@ (<<46, 106, 115, 111, 110>> :> <<60175, 32>>)   \* ".json"
    @@ (<<46, 112, 104, 112>> :> <<58888, 32>>)   \* ".php"
    @@ (<<46, 106, 115, 112>> :> <<58989, 32>>)   \* ".jsp"
    @@ (<<46, 106, 97, 118, 97>> :> <<59192, 32>>)   \* ".java"
    @@ (<<46, 112, 121>> :> <<983840, 32>>)   \* ".py"
    @@ (<<46, 114, 98>> :> <<986413, 32>>)   \* ".rb"
    @@ (<<46, 99, 112, 112>> :> <<984690, 32>>)   \* ".cpp"
    @@ (<<46, 99>> :> <<58910, 32>>)   \* ".c"
    @@ (<<46, 99, 115>> :> <<59314, 32>>)   \* ".cs"
    @@ (<<46, 103, 111>> :> <<58974, 32>>)   \* ".go"
    @@ (<<46, 115, 119, 105, 102, 116>> :> <<59033, 32>>)   \* ".swift"
    @@ (<<46, 107, 116>> :> <<58932, 32>>)   \* ".kt"
    @@ (<<46, 115, 113, 108>> :> <<62578, 32>>)   \* ".sql"
    @@ (<<46, 100, 98>> :> <<62578, 32>>)   \* ".db"
    @@ (<<46, 115, 113, 108, 105, 116, 101>> :> <<62578, 32>>)   \* ".sqlite"
    @@ (<<46, 98, 97, 107>> :> <<983151, 32>>)   \* ".bak"
    @@ (<<46, 108, 111, 103>> :> <<987269, 32>>)   \* ".log"
    @@ (<<46, 115, 104>> :> <<59232, 32>>)   \* ".sh"
    @@ (<<46, 98, 97, 116>> :> <<60356, 32>>)   \* ".bat"
    @@ (<<46, 112, 115, 49>> :> <<59500, 32>>)   \* ".ps1"
    @@ (<<46, 112, 108>> :> <<59006, 32>>)   \* ".pl"
    @@ (<<46, 114>> :> <<59521, 32>>)   \* ".r"
    @@ (<<46, 106, 97, 114>> :> <<59192, 32>>)   \* ".jar"
    @@ (<<46, 119, 97, 114>> :> <<59192, 32>>)   \* ".war"
    @@ (<<46, 101, 97, 114>> :> <<59192, 32>>)   \* ".ear"
    @@ (<<46, 101, 120, 101>> :> <<985633, 32>>)   \* ".exe"
    @@ (<<46, 100, 108, 108>> :> <<985633, 32>>)   \* ".dll"
    @@ (<<46, 115, 121, 115>> :> <<985633, 32>>)   \* ".sys"
    @@ (<<46, 109, 115, 105>> :> <<985633, 32>>)   \* ".msi"
    @@ (<<46, 100, 101, 98>> :> <<59261, 32>>)   \* ".deb"
    @@ (<<46, 114, 112, 109>> :> <<61277, 32>>)   \* ".rpm"
    @@ (<<46, 97, 112, 107>> :> <<983090, 32>>)   \* ".apk"
    @@ (<<46, 105, 112, 97>> :> <<61630, 32>>)   \* ".ipa"
    @@ (<<46, 105, 115, 111>> :> <<61630, 32>>)   \* ".iso"
    @@ (<<46, 105, 109, 103>> :> <<985635, 32>>)   \* ".img"
    @@ (<<46, 98, 105, 110>> :> <<60136, 32>>)   \* ".bin"
    @@ (<<46, 99, 117, 101>> :> <<988476>>)   \* ".cue"
    @@ (<<46, 118, 104, 100>> :> <<983754, 32>>)   \* ".vhd"
    @@ (<<46, 118, 109, 100, 107>> :> <<983754, 32>>)   \* ".vmdk"
    @@ (<<46, 100, 109, 103>> :> <<983754, 32>>)   \* ".dmg"
    @@ (<<46, 122, 105, 112>> :> <<987130, 32>>)   \* ".zip"
    @@ (<<46, 114, 97, 114>> :> <<987130, 32>>)   \* ".rar"
    @@ (<<46, 55, 122>> :> <<987130, 32>>)   \* ".7z"
    @@ (<<46, 116, 97, 114>> :> <<987130, 32>>)   \* ".tar"
    @@ (<<46, 103, 122>> :> <<987130, 32>>)   \* ".gz"
    @@ (<<46, 98, 122, 50>> :> <<987130, 32>>)   \* ".bz2"
    @@ (<<46, 120, 122>> :> <<987130, 32>>)   \* ".xz"
    @@ (<<46, 122, 115, 116>> :> <<987130, 32>>)   \* ".zst"
    @@ (<<46, 99, 112, 105, 111>> :> <<987130, 32>>)   \* ".cpio"
    @@ (<<46, 109, 112, 51>> :> <<988285, 32>>)   \* ".mp3"
    @@ (<<46, 119, 97, 118>> :> <<988285, 32>>)   \* ".wav"
    @@ (<<46, 102, 108, 97, 99>> :> <<988285, 32>>)   \* ".flac"
    @@ (<<46, 97, 97, 99>> :> <<988285, 32>>)   \* ".aac"
    @@ (<<46, 111, 103, 103>> :> <<988285, 32>>)   \* ".ogg"
    @@ (<<46, 119, 109, 97>> :> <<988285, 32>>)   \* ".wma"
    @@ (<<46, 109, 52, 97>> :> <<988285, 32>>)   \* ".m4a"
    @@ (<<46, 97, 105, 102, 102>> :> <<988285, 32>>)   \* ".aiff"
    @@ (<<46, 97, 118, 105>> :> <<983595, 32>>)   \* ".avi"
    @@ (<<46, 109, 112, 52>> :> <<983595, 32>>)   \* ".mp4"
    @@ (<<46, 109, 107, 118>> :> <<983595, 32>>)   \* ".mkv"
    @@ (<<46, 109, 111, 118>> :> <<983595, 32>>)   \* ".mov"
    @@ (<<46, 119, 109, 118>> :> <<983595, 32>>)   \* ".wmv"
    @@ (<<46, 102, 108, 118>> :> <<983595, 32>>)   \* ".flv"
    @@ (<<46, 109, 112, 101, 103>> :> <<983595, 32>>)   \* ".mpeg"
    @@ (<<46, 109, 112, 103>> :> <<983595, 32>>)   \* ".mpg"
    @@ (<<46, 109, 52, 118>> :> <<983595, 32>>)   \* ".m4v"
    @@ (<<46, 51, 103, 112>> :> <<983595, 32>>)   \* ".3gp"
    @@ (<<46, 51, 103, 50>> :> <<983595, 32>>)   \* ".3g2"
    @@ (<<46, 115, 119, 102>> :> <<61896, 32>>)   \* ".swf"
    @@ (<<46, 118, 111, 98>> :> <<983595, 32>>)   \* ".vob"
    @@ (<<46, 115, 118, 103>> :> <<984416, 32>>)   \* ".svg"
    @@ (<<46, 112, 110, 103>> :> <<61893, 32>>)   \* ".png"
    @@ (<<46, 106, 112, 103>> :> <<61893, 32>>)   \* ".jpg"
    @@ (<<46, 106, 112, 101, 103>> :> <<61893, 32>>)   \* ".jpeg"
    @@ (<<46, 103, 105, 102>> :> <<61893, 32>>)   \* ".gif"
    @@ (<<46, 98, 109, 112>> :> <<61893, 32>>)   \* ".bmp"
    @@ (<<46, 116, 105, 102, 102>> :> <<61893, 32>>)   \* ".tiff"
    @@ (<<46, 105, 99, 111>> :> <<61893, 32>>)   \* ".ico"
    @@ (<<46, 104, 101, 105, 99>> :> <<61893, 32>>)   \* ".heic"
    @@ (<<46, 112, 115, 100>> :> <<59007, 32>>)   \* ".psd"
    @@ (<<46, 97, 105>> :> <<58985, 32>>)   \* ".ai"
    @@ (<<46, 115, 107, 101, 116, 99, 104>> :> <<983676, 32>>)   \* ".sketch"
    @@ (<<46, 120, 99, 102>> :> <<62264, 32>>)   \* ".xcf"
    @@ (<<46, 114, 97, 119>> :> <<989711, 32>>)   \* ".raw"
    @@ (<<46, 99, 100, 114>> :> <<983518, 32>>)   \* ".cdr"
    @@ (<<46, 116, 101, 120>> :> <<59423, 32>>)   \* ".tex"
    @@ (<<46, 99, 102, 103>> :> <<60241, 32>>)   \* ".cfg"
    @@ (<<46, 105, 110, 105>> :> <<60241, 32>>)   \* ".ini"
    @@ (<<46, 99, 111, 110, 102>> :> <<60241, 32>>)   \* ".conf"
    @@ (<<46, 101, 110, 118>> :> <<60241, 32>>)   \* ".env"
    @@ (<<46, 99, 109, 100>> :> <<>>)   \* ".cmd"
    @@ (<<46, 114, 101, 103>> :> <<60241, 32>>)   \* ".reg"
    @@ (<<46, 118, 99, 102>> :> <<62137, 32>>)   \* ".vcf"
    @@ (<<46, 105, 99, 115>> :> <<61555, 32>>)   \* ".ics"
    @@ (<<46, 109, 111, 98, 105>> :> <<60898, 32>>)   \* ".mobi"
    @@ (<<46, 101, 112, 117, 98>> :> <<60898, 32>>)   \* ".epub"
    @@ (<<46, 97, 122, 119>> :> <<60898, 32>>)   \* ".azw"
    @@ (<<46, 116, 116, 102>> :> <<58969, 32>>)   \* ".ttf"
    @@ (<<46, 111, 116, 102>> :> <<58969, 32>>)   \* ".otf"
    @@ (<<46, 102, 111, 110>> :> <<58969, 32>>)   \* ".fon"
    @@ (<<46, 109, 104, 116>> :> <<984479, 32>>)   \* ".mht"
    @@ (<<46, 109, 104, 116, 109, 108>> :> <<984479, 32>>)   \* ".mhtml"
    @@ (<<46, 112, 97, 114, 116>> :> <<988258, 32>>)   \* ".part"
    @@ (<<46, 116, 109, 112>> :> <<62729, 32>>)   \* ".tmp"
    @@ (<<46, 100, 101, 115, 107, 116, 111, 112>> :> <<58901, 32>>)   \* ".desktop"
    @@ (<<46, 115, 101, 114, 118, 105, 99, 101>> :> <<58901, 32>>)   \* ".service"
    @@ (<<46, 107, 111>> :> <<59154, 32>>)   \* ".ko"
    @@ (<<46, 114, 117, 110>> :> <<60283, 32>>)   \* ".run"

\* the fallback icon of getIcon
DefaultIcon == <<60027, 32>>

getIcon(ext) == IF ext \in DOMAIN iconMap THEN iconMap[ext] ELSE DefaultIcon

\* the icon of a directory
DirIcon == <<58879, 32>>

GoModIcon == <<984019, 32>>
DockerIcon == <<61983, 32>>
CargoIcon == <<59019, 32>>
GitIcon == <<61907, 32>>
MakefileIcon == <<58995, 32>>

N_gomod == <<103, 111, 46, 109, 111, 100>>   \* "go.mod"
N_gosum == <<103, 111, 46, 115, 117, 109>>   \* "go.sum"
N_Dockerfile == <<68, 111, 99, 107, 101, 114, 102, 105, 108, 101>>   \* "Dockerfile"
N_dockercompose == <<100, 111, 99, 107, 101, 114, 45, 99, 111, 109, 112, 111, 115, 101, 46, 121, 109, 108>>   \* "docker-compose.yml"
N_dockerignore == <<46, 100, 111, 99, 107, 101, 114, 105, 103, 110, 111, 114, 101>>   \* ".dockerignore"
N_cargotoml == <<99, 97, 114, 103, 111, 46, 116, 111, 109, 108>>   \* "cargo.toml"
N_github == <<46, 103, 105, 116, 104, 117, 98>>   \* ".github"
N_gitignore == <<46, 103, 105, 116, 105, 103, 110, 111, 114, 101>>   \* ".gitignore"
N_Makefile == <<77, 97, 107, 101, 102, 105, 108, 101>>   \* "Makefile"

\* a classifier that tries the name and extension rules before the directory
\* check
getFileNameWithIconDirLast(entry) ==
    LET ext == ToLower(Ext(entry.name))
    IN  CASE entry.name = N_gomod \/ entry.name = N_gosum -> GoModIcon \o entry.name
          [] entry.name = N_Dockerfile \/ entry.name = N_dockercompose
                 \/ entry.name = N_dockerignore -> DockerIcon \o entry.name
          [] entry.name = N_cargotoml -> CargoIcon \o entry.name
          [] entry.name = N_github \/ entry.name = N_gitignore -> GitIcon \o entry.name
          [] entry.name = N_Makefile -> MakefileIcon \o entry.name
          [] ext \in DOMAIN iconMap -> iconMap[ext] \o entry.name
          [] entry.isDir -> DirIcon \o entry.name
          [] OTHER -> DefaultIcon \o entry.name

\* a classifier that looks the extension up as it is spelled
getFileNameWithIconNoFold(entry) ==
    IF entry.isDir THEN DirIcon \o entry.name
    ELSE LET ext == Ext(entry.name)
         IN  CASE entry.name = N_gomod \/ entry.name = N_gosum -> GoModIcon \o entry.name
               [] entry.name = N_Dockerfile \/ entry.name = N_dockercompose
                      \/ entry.name = N_dockerignore -> DockerIcon \o entry.name
               [] entry.name = N_cargotoml -> CargoIcon \o entry.name
               [] entry.name = N_github \/ entry.name = N_gitignore -> GitIcon \o entry.name
               [] entry.name = N_Makefile -> MakefileIcon \o entry.name
               [] OTHER -> getIcon(ext) \o entry.name

\* getFileNameWithIcon(entry): the entry's name prefixed with its icon
getFileNameWithIcon(entry) ==
    IF entry.isDir THEN DirIcon \o entry.name
    ELSE LET ext == ToLower(Ext(entry.name))
         IN  CASE entry.name = N_gomod \/ entry.name = N_gosum -> GoModIcon \o entry.name
               [] entry.name = N_Dockerfile \/ entry.name = N_dockercompose
                      \/ entry.name = N_dockerignore -> DockerIcon \o entry.name
               [] entry.name = N_cargotoml -> CargoIcon \o entry.name
               [] entry.name = N_github \/ entry.name = N_gitignore -> GitIcon \o entry.name
               [] entry.name = N_Makefile -> MakefileIcon \o entry.name
               [] OTHER -> getIcon(ext) \o entry.name

(***************************************************************************)
(* The file system and the terminal the tool runs against.                 *)
(***************************************************************************)
\* one directory entry with the metadata Lstat reports for it: permission
\* bits, owner and group ids, and blocks of 512 bytes; old is the number of
\* nanoseconds by which the age of the entry (start of the run minus
\* modification time) exceeds 6*30*24 hours, negative for a younger entry
Entry(name, isDir, blocks, perm, uid, gid, old) ==
    [name |-> name, isDir |-> isDir, blocks |-> blocks, perm |-> perm,
     nlink |-> IF isDir THEN 2 ELSE 1, uid |-> uid, gid |-> gid,
     size |-> blocks * 512, old |-> old]

\* entries the sampled directories are built from
Core ==
    { Entry(<<98, 46, 84, 88, 84>>, FALSE, 8, 420, 0, 0, -1000000),          \* "b.TXT"
      Entry(<<65, 46, 109, 100>>, FALSE, 1, 384, 1000, 50, 0),               \* "A.md"
      Entry(<<99>>, FALSE, 3, 493, 9999, 0, 1),                              \* "c"
      Entry(<<68>>, TRUE, 8, 493, 0, 4242, 2),                               \* "D"
      Entry(<<82, 69, 65, 68, 77, 69>>, FALSE, 16, 420, 9999, 4242, 1000000),   \* "README"
      Entry(<<114, 101, 97, 100, 109, 101>>, FALSE, 5, 292, 1000, 50, -1),   \* "readme"
      Entry(N_Makefile, FALSE, 0, 420, 0, 0, -2),
      Entry(N_dockercompose, FALSE, 24, 416, 1000, 50, 3) }

\* a regular file and a directory with ordinary metadata
File(name) == Entry(name, FALSE, 1, 420, 0, 0, -1000000)
Folder(name) == Entry(name, TRUE, 8, 493, 0, 0, -1000000)

\* entries that are listed alone
Extra ==
    { Folder(N_Makefile),
      Folder(N_gomod),
      Folder(<<120, 46, 109, 100>>),                      \* "x.md"
      File(N_gomod),
      File(N_gosum),
      File(N_Dockerfile),
      File(N_dockerignore),
      File(N_cargotoml),
      File(N_github),
      File(N_gitignore),
      File(<<109, 97, 107, 101, 102, 105, 108, 101>>),    \* "makefile"
      File(<<98, 46, 116, 120, 116>>),                    \* "b.txt"
      File(<<97, 46, 99, 109, 100>>),                     \* "a.cmd"
      File(<<97, 46, 99, 117, 101>>),                     \* "a.cue"
      File(<<97, 46, 116, 97, 114, 46, 71, 90>>),         \* "a.tar.GZ"
      File(<<97, 46>>),                                   \* "a."
      File(<<26085, 26412>>) }                            \* two 3-byte runes

\* the user and group databases: uid 9999 and gid 4242 have no entry
passwd == (0 :> <<114, 111, 111, 116>>) @@ (1000 :> <<97, 108, 105, 99, 101>>)   \* root, alice
group == (0 :> <<114, 111, 111, 116>>) @@ (50 :> <<115, 116, 97, 102, 102>>)      \* root, staff

\* the directory of the end-to-end scenario: b.TXT, A.md, c and the directory D
Scenario == {e \in Core : e.name \in {<<98, 46, 84, 88, 84>>, <<65, 46, 109, 100>>, <<99>>, <<68>>}}

\* the contents a readable directory may have
Dirs == {S \in SUBSET Core : Cardinality(S) <= MaxEntries} \cup {{e} : e \in Extra} \cup {Scenario}

\* the paths ls is run on: "." is readable, the others are not
Paths == {".", "missing", "secret"}

\* the error os.ReadDir reports for an unreadable path
ReadDirError(path) == IF path = "missing" THEN "no such file or directory" ELSE "permission denied"

\* the sequences that list the set S once each
SeqsOf(S) ==
    LET n == Cardinality(S)
    IN  {q \in [1..n -> S] : \A i, j \in 1..n : i # j => q[i] # q[j]}

\* os.ReadDir returns the entries sorted by filename
ReadDirOrder(S) ==
    CHOOSE q \in SeqsOf(S) : \A i \in 1..(Len(q) - 1) : StrLess(q[i].name, q[i + 1].name)

\* what term.GetSize answers for a descriptor: an error, or a width
NoTTY == [ok |-> FALSE, width |-> 0]
TTY(w) == [ok |-> TRUE, width |-> w]

\* the terminals behind standard input and standard output
Terminals ==
    { [stdin |-> NoTTY,    stdout |-> NoTTY],
      [stdin |-> TTY(0),   stdout |-> TTY(0)],
      [stdin |-> TTY(15),  stdout |-> TTY(15)],
      [stdin |-> TTY(19),  stdout |-> TTY(19)],
      [stdin |-> TTY(20),  stdout |-> TTY(20)],
      [stdin |-> TTY(24),  stdout |-> TTY(24)],
      [stdin |-> TTY(80),  stdout |-> TTY(80)],
      [stdin |-> NoTTY,    stdout |-> TTY(100)],
      [stdin |-> TTY(100), stdout |-> NoTTY] }

(***************************************************************************)
(* ls.go: the state of one run of ls.Run.                                  *)
(***************************************************************************)
VARIABLES
    pc,          \* position of Run: "start", "sort", "render", "long", "entries", "done"
    longFormat,  \* the -l flag
    dir,         \* the target directory
    term,        \* the terminals of the process, once term.GetSize has asked
    entries,     \* the entries slice
    idx,         \* number of entries the long-format loop has printed
    infoLog,     \* the outcome of every entry.Info() call so far
    names,       \* printMultiColumn: the rendered names
    width,       \* printMultiColumn: the width used for the layout
    colWidth,    \* printMultiColumn: the width of one column
    cols,        \* printMultiColumn: the number of columns
    clock,       \* nanoseconds since the start of the run
    stdout,      \* what was written to standard output, one element per write
    stderr,      \* what was written to standard error
    argv,        \* echo and cat: the arguments of the run
    stdin        \* cat: the lines that standard input holds

vars == <<pc, longFormat, dir, term, entries, idx, infoLog, names, width, colWidth, cols, clock, stdout, stderr,
          argv, stdin>>

Init ==
    /\ pc = "start"
    /\ longFormat \in BOOLEAN
    /\ dir \in Paths
    /\ term = [stdin |-> NoTTY, stdout |-> NoTTY]
    /\ entries = <<>>
    /\ idx = 0
    /\ infoLog = <<>>
    /\ names = <<>>
    /\ width = 0
    /\ colWidth = 0
    /\ cols = 0
    /\ clock = 0
    /\ stdout = <<>>
    /\ stderr = <<>>
    /\ argv = <<>>
    /\ stdin = <<>>

\* the writes of the program
CannotAccess(path, cause) == [kind |-> "cannot access", path |-> path, cause |-> cause]
Cell(text) == [kind |-> "cell", text |-> text]
Newline == [kind |-> "newline"]

\* Run, lines 36-41: os.ReadDir succeeds
ReadDirOk ==
    /\ pc = "start"
    /\ dir = "."
    /\ \E S \in Dirs : entries' = ReadDirOrder(S)
    /\ pc' = "sort"
    /\ UNCHANGED <<argv, stdin, longFormat, dir, term, idx, infoLog, names, width, colWidth, cols, clock, stdout, stderr>>

\* a failing os.ReadDir after which Run goes on with the entries it has
ReadDirFailNoReturn ==
    /\ pc = "start"
    /\ dir # "."
    /\ stderr' = Append(stderr, CannotAccess(dir, ReadDirError(dir)))
    /\ pc' = "sort"
    /\ UNCHANGED <<argv, stdin, longFormat, dir, term, entries, idx, infoLog, names, width, colWidth, cols, clock, stdout>>

\* Run, lines 36-41: os.ReadDir fails
ReadDirFail ==
    /\ pc = "start"
    /\ dir # "."
    /\ stderr' = Append(stderr, CannotAccess(dir, ReadDirError(dir)))
    /\ pc' = "done"
    /\ UNCHANGED <<argv, stdin, longFormat, dir, term, entries, idx, infoLog, names, width, colWidth, cols, clock, stdout>>

\* a less function that compares the names as they are
LessCaseSensitive(a, b) == StrLess(a.name, b.name)

\* the less function handed to sort.Slice
Less(a, b) == StrLess(ToLower(a.name), ToLower(b.name))

\* the results sort.Slice may leave in the slice: a permutation in which no
\* element is less than an earlier one; sort.Slice is not stable, elements
\* that compare equal come out in any order
SortSlice(s) ==
    {q \in SeqsOf({s[i] : i \in 1..Len(s)}) : \A i, j \in 1..Len(q) : i < j => ~Less(q[j], q[i])}

\* Run, lines 43-59: sort the entries and branch on the format
Sort ==
    /\ pc = "sort"
    /\ entries' \in SortSlice(entries)
    /\ pc' = IF longFormat THEN "long" ELSE "render"
    /\ UNCHANGED <<argv, stdin, longFormat, dir, term, idx, infoLog, names, width, colWidth, cols, clock, stdout, stderr>>

\* printMultiColumn, lines 139-142: the width of the layout
LayoutWidth(size) == IF ~size.ok \/ size.width < 20 THEN 80 ELSE size.width

\* printMultiColumn, lines 144-153: the longest rendered name in bytes
RECURSIVE MaxLen(_)
MaxLen(ns) ==
    IF ns = <<>> THEN 0
    ELSE LET m == MaxLen(Tail(ns))
         IN  IF Utf8Len(Head(ns)) > m THEN Utf8Len(Head(ns)) ELSE m

\* a column count that rounds up
ColumnsCeil(w, cw) == (w + cw - 1) \div cw

\* printMultiColumn, lines 155-159: the number of columns
Columns(w, cw) == IF w \div cw = 0 THEN 1 ELSE w \div cw

\* an emit loop that ends every listing with one more line break
RECURSIVE EmitTrailing(_, _, _, _)
EmitTrailing(ns, i, cw, n) ==
    IF i > Len(ns) THEN <<Newline>>
    ELSE <<Cell(PadRight(ns[i], cw))>>
         \o (IF (i % n) = 0 THEN <<Newline>> ELSE <<>>)
         \o EmitTrailing(ns, i + 1, cw, n)

\* printMultiColumn, lines 162-168: the writes of the emit loop from entry i on
RECURSIVE Emit(_, _, _, _)
Emit(ns, i, cw, n) ==
    IF i > Len(ns) THEN <<>>
    ELSE <<Cell(PadRight(ns[i], cw))>>
         \o (IF (i % n) = 0 \/ i = Len(ns) THEN <<Newline>> ELSE <<>>)
         \o Emit(ns, i + 1, cw, n)

\* printMultiColumn
PrintMultiColumn ==
    /\ pc = "render"
    /\ term' \in Terminals
    /\ LET w  == LayoutWidth(term'.stdin)
           ns == [i \in 1..Len(entries) |-> getFileNameWithIcon(entries[i])]
           cw == MaxLen(ns) + 2
           n  == Columns(w, cw)
       IN  /\ width' = w
           /\ names' = ns
           /\ colWidth' = cw
           /\ cols' = n
           /\ stdout' = stdout \o Emit(ns, 1, cw, n)
    /\ pc' = "done"
    /\ UNCHANGED <<argv, stdin, longFormat, dir, entries, idx, infoLog, clock, stderr>>

(***************************************************************************)
(* ls.go: the long format.                                                 *)
(***************************************************************************)
\* largest value of the clock the model follows
MaxClock == 2

\* the decimal digits of n (fmt.Sprint and %d of a non-negative integer)
RECURSIVE Itoa(_)
Itoa(n) == IF n < 10 THEN <<48 + n>> ELSE Itoa(n \div 10) \o <<48 + (n % 10)>>

\* fmt's %4d: right-aligned in a field of at least 4 characters
PadLeft4(s) == IF Len(s) >= 4 THEN s ELSE Spaces(4 - Len(s)) \o s

\* the nine permission characters of FileMode.Perm().String(): bit 8 is the
\* owner's read bit, bit 0 the others' execute bit
PermBits(perm) ==
    [i \in 1..9 |->
        IF (perm \div (2 ^ (9 - i))) % 2 = 1
        THEN (CASE i % 3 = 1 -> 114 [] i % 3 = 2 -> 119 [] OTHER -> 120)
        ELSE 45]

\* printDetailedEntry, lines 94-99: the permission string
Perms(e) == (IF e.isDir THEN <<100>> ELSE <<45>>) \o PermBits(e.perm)

\* an owner field that is numeric as soon as either lookup fails
OwnerCoupled(e) ==
    IF e.uid \in DOMAIN passwd /\ e.gid \in DOMAIN group THEN passwd[e.uid] ELSE Itoa(e.uid)

\* printDetailedEntry, lines 102-109: the owner field
Owner(e) == IF e.uid \in DOMAIN passwd THEN passwd[e.uid] ELSE Itoa(e.uid)

\* printDetailedEntry, lines 103-115: the group field
Group(e) == IF e.gid \in DOMAIN group THEN group[e.gid] ELSE Itoa(e.gid)

\* time.Since(t).Hours() > 6*30*24 for an age that exceeds 6*30*24 hours by
\* over nanoseconds (less than an hour either way).  Hours() is the float64
\* sum hours + nanoseconds/3.6e12; next to 4320 a float64 has a spacing of
\* 2^-40, so the sum is above 4320 only when nanoseconds/3.6e12 > 2^-41,
\* that is over > 3.6e12 / 2^41 = 1757812500 / 2^30 (not an integer)
OlderThanSixMonths(over) == over > (1757812500 \div 1073741824)

\* printDetailedEntry, lines 119-122: the layout of the modification time
TimeFormat(e, now) == IF OlderThanSixMonths(e.old + now) THEN "Jan _2 2006" ELSE "Jan _2 15:04"

\* the writes of the long format
Total(n) == [kind |-> "total", n |-> n]
InfoError(name) == [kind |-> "error reading file info", name |-> name]
Detail(e, now) ==
    [kind |-> "detail", perms |-> Perms(e), nlink |-> Itoa(e.nlink), owner |-> Owner(e),
     group |-> Group(e), size |-> PadLeft4(Itoa(e.size)), layout |-> TimeFormat(e, now),
     name |-> getFileNameWithIcon(e)]

\* one call of entry.Info()
InfoCall(fn, e, ok) == [fn |-> fn, name |-> e.name, ok |-> ok]

\* a sum that converts every entry to 1K blocks before adding it
RECURSIVE SumHalves(_, _)
SumHalves(es, oks) ==
    IF es = <<>> THEN 0
    ELSE (IF Head(oks) THEN (Head(es).blocks \div 2) * 2 ELSE 0) + SumHalves(Tail(es), Tail(oks))

\* printTotalBlocks, lines 64-75: the sum of the blocks of the entries whose
\* Info() succeeded
RECURSIVE SumBlocks(_, _)
SumBlocks(es, oks) ==
    IF es = <<>> THEN 0
    ELSE (IF Head(oks) THEN Head(es).blocks ELSE 0) + SumBlocks(Tail(es), Tail(oks))

\* printTotalBlocks: every entry.Info() either succeeds or fails
PrintTotalBlocks ==
    /\ pc = "long"
    /\ \E oks \in [1..Len(entries) -> BOOLEAN] :
        /\ infoLog' = [i \in 1..Len(entries) |-> InfoCall("printTotalBlocks", entries[i], oks[i])]
        /\ stdout' = Append(stdout, Total(SumBlocks(entries, oks) \div 2))
    /\ pc' = "entries"
    /\ UNCHANGED <<argv, stdin, longFormat, dir, term, entries, idx, names, width, colWidth, cols, clock, stderr>>

\* a failing entry.Info() that ends the listing
PrintDetailedEntryAbort ==
    /\ pc = "entries"
    /\ idx < Len(entries)
    /\ LET e == entries[idx + 1]
       IN  /\ infoLog' = Append(infoLog, InfoCall("printDetailedEntry", e, FALSE))
           /\ stdout' = Append(stdout, InfoError(e.name))
    /\ idx' = Len(entries)
    /\ UNCHANGED <<argv, stdin, pc, longFormat, dir, term, entries, names, width, colWidth, cols, clock, stderr>>

\* printDetailedEntry of the next entry: entry.Info() fails
PrintDetailedEntryFail ==
    /\ pc = "entries"
    /\ idx < Len(entries)
    /\ LET e == entries[idx + 1]
       IN  /\ infoLog' = Append(infoLog, InfoCall("printDetailedEntry", e, FALSE))
           /\ stdout' = Append(stdout, InfoError(e.name))
    /\ idx' = idx + 1
    /\ UNCHANGED <<argv, stdin, pc, longFormat, dir, term, entries, names, width, colWidth, cols, clock, stderr>>

\* printDetailedEntry of the next entry: entry.Info() succeeds; the time of
\* rendering is read when the entry is printed
PrintDetailedEntryOk ==
    /\ pc = "entries"
    /\ idx < Len(entries)
    /\ \E now \in clock..MaxClock :
        /\ clock' = now
        /\ LET e == entries[idx + 1]
           IN  /\ infoLog' = Append(infoLog, InfoCall("printDetailedEntry", e, TRUE))
               /\ stdout' = Append(stdout, Detail(e, now))
    /\ idx' = idx + 1
    /\ UNCHANGED <<argv, stdin, pc, longFormat, dir, term, entries, names, width, colWidth, cols, stderr>>

\* Run, lines 53-60: the loop over the entries is over
Return ==
    /\ pc = "entries"
    /\ idx = Len(entries)
    /\ pc' = "done"
    /\ UNCHANGED <<argv, stdin, longFormat, dir, term, entries, idx, infoLog, names, width, colWidth, cols, clock, stdout, stderr>>

Next ==
    \/ ReadDirOk
    \/ ReadDirFail
    \/ Sort
    \/ PrintMultiColumn
    \/ PrintTotalBlocks
    \/ PrintDetailedEntryFail
    \/ PrintDetailedEntryOk
    \/ Return

Spec == Init /\ [][Next]_vars

(***************************************************************************)
(* Properties.                                                             *)
(***************************************************************************)
\* the directory was read and sorted, and the entries are with the renderer
Listed == dir = "." /\ pc \in {"render", "long", "entries", "done"}

\* the compact listing has been written
CompactDone == dir = "." /\ pc = "done" /\ ~longFormat

\* the long listing has been written
LongDone == dir = "." /\ pc = "done" /\ longFormat

\* a <= b in byte order
StrLeq(a, b) ==
    LET n    == IF Len(a) < Len(b) THEN Len(a) ELSE Len(b)
        diff == {k \in 1..n : a[k] # b[k]}
        d    == CHOOSE k \in diff : \A j \in diff : k <= j
    IN  IF diff = {} THEN Len(a) <= Len(b) ELSE a[d] < b[d]

\* q holds the elements of s, each as often as s does
IsPermutationOf(q, s) ==
    /\ Len(q) = Len(s)
    /\ \A i \in 1..Len(s) :
        Cardinality({j \in 1..Len(q) : q[j] = s[i]}) = Cardinality({j \in 1..Len(s) : s[j] = s[i]})

\* the names of a sequence of entries
NamesOf(es) == [i \in 1..Len(es) |-> es[i].name]

\* the listing of the scenario in the order the claim gives: A.md, b.TXT, c, D
ScenarioOrder == << <<65, 46, 109, 100>>, <<98, 46, 84, 88, 84>>, <<99>>, <<68>> >>

\* C1: the sort of ls.Run leaves a permutation of the entries read in which
\* every adjacent pair is in case-insensitive ascending order; the entries
\* b.TXT, A.md, c, D come out as A.md, b.TXT, c, D
C1_SortIsCaseInsensitiveAscending ==
    [][pc = "sort" =>
        /\ IsPermutationOf(entries', entries)
        /\ \A i \in 1..(Len(entries') - 1) :
            StrLeq(ToLower(entries'[i].name), ToLower(entries'[i + 1].name))
        /\ ({entries[i] : i \in 1..Len(entries)} = Scenario => NamesOf(entries') = ScenarioOrder)]_vars

\* C1 witness: the scenario's directory was sorted and handed to a renderer
C1_Witness == pc \in {"render", "long"} /\ NamesOf(entries) = ScenarioOrder

\* C2: entries whose names differ only by letter case are listed in the byte
\* order of their names
C2_TiesInByteOrder ==
    Listed =>
        \A i \in 1..(Len(entries) - 1) :
            ToLower(entries[i].name) = ToLower(entries[i + 1].name)
                => StrLess(entries[i].name, entries[i + 1].name)

\* every entry that was rendered so far, with its rendered name
Rendered ==
    {<<entries[i], names[i]>> : i \in 1..Len(names)}
    \cup {<<entries[k - 1], stdout[k].name>> : k \in {j \in 2..Len(stdout) : stdout[j].kind = "detail"}}

\* C3: a directory is rendered as the directory symbol followed by its name,
\* whatever its name is
C3_DirectoryAlwaysDirectorySymbol ==
    \A p \in Rendered : p[1].isDir => p[2] = <<58879, 32>> \o p[1].name

\* C3 witness: a directory named Makefile, go.mod or x.md was rendered
C3_Witness ==
    \E p \in Rendered :
        /\ p[1].isDir
        /\ p[1].name \in {N_Makefile, N_gomod, <<120, 46, 109, 100>>}

\* the exact-filename rules of the reference classifier, in their order
ExactRules ==
    << [names |-> {N_gomod, N_gosum}, icon |-> <<984019, 32>>],
       [names |-> {N_Dockerfile, N_dockercompose, N_dockerignore}, icon |-> <<61983, 32>>],
       [names |-> {N_cargotoml}, icon |-> <<59019, 32>>],
       [names |-> {N_github, N_gitignore}, icon |-> <<61907, 32>>],
       [names |-> {N_Makefile}, icon |-> <<58995, 32>> ] >>

\* the reference classifier of a non-directory: the first exact-filename rule
\* that matches, else the table's symbol of the lowercased extension, else
\* the generic symbol
ReferenceSymbol(name) ==
    LET hits  == {r \in 1..Len(ExactRules) : name \in ExactRules[r].names}
        first == CHOOSE r \in hits : \A s \in hits : r <= s
        ext   == ToLower(Ext(name))
    IN  IF hits # {} THEN ExactRules[first].icon
        ELSE IF ext \in DOMAIN iconMap THEN iconMap[ext]
        ELSE <<60027, 32>>

\* C4: a non-directory is rendered with the symbol of the reference
\* classifier; b.TXT and b.txt get the text symbol, makefile the generic one
C4_FirstMatchWins ==
    \A p \in Rendered :
        ~p[1].isDir =>
            /\ p[2] = ReferenceSymbol(p[1].name) \o p[1].name
            /\ p[1].name \in {<<98, 46, 84, 88, 84>>, <<98, 46, 116, 120, 116>>}
                   => p[2] = <<61788, 32>> \o p[1].name
            /\ p[1].name = <<109, 97, 107, 101, 102, 105, 108, 101>>
                   => p[2] = <<60027, 32>> \o p[1].name

\* C4 witness: the file b.TXT was rendered
C4_Witness == \E p \in Rendered : ~p[1].isDir /\ p[1].name = <<98, 46, 84, 88, 84>>

\* the length in characters of the longest of the strings ns
RECURSIVE MaxRunes(_)
MaxRunes(ns) ==
    IF ns = <<>> THEN 0
    ELSE LET m == MaxRunes(Tail(ns)) IN IF Len(Head(ns)) > m THEN Len(Head(ns)) ELSE m

\* C5: the column width is the length in characters of the longest rendered
\* name plus 2; width 80 and a longest name of 10 characters give column
\* width 12 and 6 columns
C5_ColumnWidthInCharacters ==
    CompactDone =>
        /\ colWidth = MaxRunes(names) + 2
        /\ (width = 80 /\ MaxRunes(names) = 10) => (colWidth = 12 /\ cols = 6)

\* C6: the layout uses the width of standard output when the probe succeeds
\* with at least 20, and 80 otherwise
C6_WidthOfOutputDevice ==
    CompactDone =>
        width = (IF term.stdout.ok /\ term.stdout.width >= 20 THEN term.stdout.width ELSE 80)

\* C7: the column count is max(1, floor(width / column width)), never zero,
\* and the column width is never zero
C7_ColumnCountAtLeastOne ==
    CompactDone =>
        /\ colWidth > 0
        /\ cols >= 1
        /\ cols = (IF width \div colWidth > 1 THEN width \div colWidth ELSE 1)

\* C7 witness: a listing whose longest name is wider than the terminal
C7_Witness == CompactDone /\ Len(entries) > 0 /\ colWidth > width /\ cols = 1

\* the number of lines of n names in rows of k
Lines(n, k) == (n + k - 1) \div k

\* C8: the compact listing is the names in sorted order, each padded with
\* spaces to the column width, with a line break after name i exactly when
\* i mod cols = 0 or i is the last: ceil(n/cols) lines, and nothing for an
\* empty listing
C8_RowMajorGrid ==
    CompactDone =>
        LET n == Len(entries)
        IN  /\ Len(names) = n
            /\ Len(stdout) = n + Lines(n, cols)
            /\ \A i \in 1..n :
                LET w == stdout[i + ((i - 1) \div cols)]
                IN  /\ w.kind = "cell"
                    /\ Len(w.text) = colWidth
                    /\ SubSeq(w.text, 1, Len(names[i])) = names[i]
                    /\ \A k \in (Len(names[i]) + 1)..colWidth : w.text[k] = 32
                    /\ SubSeq(names[i], Len(names[i]) - Len(entries[i].name) + 1, Len(names[i]))
                           = entries[i].name
            /\ \A r \in 1..Lines(n, cols) :
                stdout[(IF r * cols < n THEN r * cols ELSE n) + r] = [kind |-> "newline"]

\* C8 witness: three names in two columns, a full row and a last partial row
C8_Witness == CompactDone /\ Len(entries) = 3 /\ cols = 2 /\ Len(stdout) = 5

\* the blocks of the entries whose Info() succeeded in printTotalBlocks
RECURSIVE BlocksOfSucceeded(_)
BlocksOfSucceeded(I) ==
    IF I = {} THEN 0
    ELSE LET i == CHOOSE j \in I : TRUE
         IN  (IF infoLog[i].ok THEN entries[i].blocks ELSE 0) + BlocksOfSucceeded(I \ {i})

\* C9: the long listing starts with the total line, whose number is half the
\* sum of the blocks of the entries whose Info() succeeded, and nothing is
\* written before it
C9_TotalLine ==
    /\ (dir = "." /\ longFormat /\ pc \in {"entries", "done"}) =>
        /\ Len(stdout) >= 1
        /\ stdout[1] = [kind |-> "total", n |-> BlocksOfSucceeded(1..Len(entries)) \div 2]
        /\ \A k \in 2..Len(stdout) : stdout[k].kind # "total"
    /\ pc = "long" => stdout = <<>>

\* C9 witness: a long listing in which an Info() of printTotalBlocks failed
\* and two entries with an odd number of blocks were added up
C9_Witness ==
    /\ LongDone
    /\ \E i \in 1..Len(entries) : ~infoLog[i].ok
    /\ \E i, j \in 1..Len(entries) :
        /\ i # j
        /\ infoLog[i].ok /\ entries[i].blocks % 2 = 1
        /\ infoLog[j].ok /\ entries[j].blocks % 2 = 1

\* C10: after the total line the long listing has one line per entry, in the
\* order of the entries: the error message naming the entry when its Info()
\* failed in printDetailedEntry, its detail line otherwise
C10_OneLinePerEntry ==
    LongDone =>
        LET n == Len(entries)
        IN  /\ Len(stdout) = n + 1
            /\ Len(infoLog) = 2 * n
            /\ \A i \in 1..n :
                LET call == infoLog[n + i]
                    line == stdout[i + 1]
                IN  /\ call.fn = "printDetailedEntry"
                    /\ call.name = entries[i].name
                    /\ ~call.ok => line = [kind |-> "error reading file info", name |-> entries[i].name]
                    /\ call.ok =>
                        /\ line.kind = "detail"
                        /\ DOMAIN line = {"kind", "perms", "nlink", "owner", "group", "size", "layout", "name"}
                        /\ Len(line.perms) = 10
                        /\ SubSeq(line.name, Len(line.name) - Len(entries[i].name) + 1, Len(line.name))
                               = entries[i].name

\* C10 witness: a failed entry between two entries with a detail line
C10_Witness ==
    /\ LongDone
    /\ Len(stdout) = 4
    /\ stdout[2].kind = "detail"
    /\ stdout[3].kind = "error reading file info"
    /\ stdout[4].kind = "detail"

\* the kinds of writes that are listing output
ListingKinds == {"total", "detail", "cell", "newline"}

\* C11: standard output holds only listing output (total line, detail lines
\* and compact rows); every diagnostic is on standard error
C11_DiagnosticsOnStderr ==
    /\ \A k \in 1..Len(stdout) : stdout[k].kind \in ListingKinds
    /\ \A k \in 1..Len(stderr) : stderr[k].kind \notin ListingKinds

\* C12: when the directory cannot be read, Run writes the one line
\* "ls: cannot access '<path>': <cause>" to standard error, nothing to
\* standard output, and returns without sorting or rendering
C12_DirectoryAccessFailure ==
    dir # "." =>
        /\ pc \in {"start", "done"}
        /\ stdout = <<>>
        /\ entries = <<>> /\ names = <<>> /\ infoLog = <<>> /\ idx = 0 /\ cols = 0
        /\ pc = "start" => stderr = <<>>
        /\ pc = "done" =>
            /\ Len(stderr) = 1
            /\ stderr[1].kind = "cannot access"
            /\ stderr[1].path = dir
            /\ stderr[1].cause = (IF dir = "missing" THEN "no such file or directory"
                                  ELSE "permission denied")

\* C12 witness: Run has returned from a directory it could not read, in the
\* long format
C12_Witness == dir = "secret" /\ pc = "done" /\ longFormat /\ Len(stderr) = 1

\* C13: the owner field of a detail line is the user's name, or the uid in
\* decimal when the uid has no user (9999); the group field is the group's
\* name, or the gid in decimal when the gid has no group (4242); the two fall
\* back independently, and every entry whose Info() succeeded gets its line
C13_NumericFallback ==
    /\ (dir = "." /\ longFormat) =>
        \A k \in 2..Len(stdout) :
            stdout[k].kind = "detail" =>
                LET e == entries[k - 1]
                IN  /\ stdout[k].owner =
                           (CASE e.uid = 0 -> <<114, 111, 111, 116>>
                              [] e.uid = 1000 -> <<97, 108, 105, 99, 101>>
                              [] e.uid = 9999 -> <<57, 57, 57, 57>>)
                    /\ stdout[k].group =
                           (CASE e.gid = 0 -> <<114, 111, 111, 116>>
                              [] e.gid = 50 -> <<115, 116, 97, 102, 102>>
                              [] e.gid = 4242 -> <<52, 50, 52, 50>>)
    /\ LongDone =>
        /\ Len(stdout) = Len(entries) + 1
        /\ \A i \in 1..Len(entries) :
            infoLog[Len(entries) + i].ok => stdout[i + 1].kind = "detail"

\* C13 witness: a line with a numeric owner and a named group, then a line
\* with a named owner and a numeric group, then one more line
C13_Witness ==
    /\ LongDone
    /\ Len(stdout) = 4
    /\ stdout[2].kind = "detail" /\ stdout[3].kind = "detail" /\ stdout[4].kind = "detail"
    /\ stdout[2].owner = <<57, 57, 57, 57>> /\ stdout[2].group = <<114, 111, 111, 116>>
    /\ stdout[3].owner = <<114, 111, 111, 116>> /\ stdout[3].group = <<52, 50, 52, 50>>

\* C14: an entry is rendered in the year-based format when its age at the
\* time of rendering is strictly greater than 6*30*24 hours, and in the
\* time-of-day format otherwise; old + clock' is that age minus the
\* threshold, in nanoseconds
C14_StrictlyOlderUsesYear ==
    [][(pc = "entries" /\ Len(stdout') = Len(stdout) + 1 /\ stdout'[Len(stdout')].kind = "detail") =>
        stdout'[Len(stdout')].layout =
            (IF entries[idx + 1].old + clock' > 0 THEN "Jan _2 2006" ELSE "Jan _2 15:04")]_vars

\* C17: every rendered name is a non-empty icon symbol, one space, and the
\* entry's name unchanged
C17_IconSpaceName ==
    \A p \in Rendered :
        /\ Len(p[2]) = Len(p[1].name) + 2
        /\ p[2][1] # 32
        /\ p[2][2] = 32
        /\ SubSeq(p[2], 3, Len(p[2])) = p[1].name

\* the positions of the line breaks of the compact listing
Breaks == {k \in 1..Len(stdout) : stdout[k].kind = "newline"}

\* the number of characters written from position j up to position k - 1
RECURSIVE Chars(_, _)
Chars(j, k) == IF j >= k THEN 0 ELSE Len(stdout[j].text) + Chars(j + 1, k)

\* the number of characters of the line that the line break at k ends
LineLength(k) ==
    LET before == {b \in Breaks : b < k}
        start  == IF before = {} THEN 1 ELSE (CHOOSE b \in before : \A c \in before : c <= b) + 1
    IN  Chars(start, k)

\* C18: when floor(width / column width) >= 1, no line of the compact
\* listing has more characters than the width used for the layout
C18_LinesFitWidth ==
    (CompactDone /\ width \div colWidth >= 1) => \A k \in Breaks : LineLength(k) <= width

\* C18 witness: a full row of two columns that fills the width, the names
\* measured in bytes being longer than they are in characters
C18_Witness ==
    /\ CompactDone
    /\ width \div colWidth = 2
    /\ Len(entries) >= 2
    /\ \E k \in Breaks : LineLength(k) = width
    /\ \A i \in 1..Len(names) : Utf8Len(names[i]) > Len(names[i])

(***************************************************************************)
(* echo.go: echo.Run.  The run uses pc, argv, stdout; the variables of ls   *)
(* stay as they are.                                                       *)
(***************************************************************************)
\* largest number of arguments of a sampled call of echo.Run
MaxArgs == 3

\* the arguments the sampled calls are built from: "Hello", "World", the
\* empty string and "a b"
Words == { <<72, 101, 108, 108, 111>>, <<87, 111, 114, 108, 100>>, <<>>, <<97, 32, 98>> }

\* the argument lists of the sampled calls
ArgLists == UNION {[1..n -> Words] : n \in 0..MaxArgs}

\* the variables of ls while another tool runs
LsIdle ==
    /\ longFormat = FALSE
    /\ dir = "."
    /\ entries = <<>>
    /\ idx = 0
    /\ infoLog = <<>>
    /\ names = <<>>
    /\ width = 0
    /\ colWidth = 0
    /\ cols = 0
    /\ clock = 0

InitEcho ==
    /\ pc = "start"
    /\ LsIdle
    /\ term = [stdin |-> NoTTY, stdout |-> NoTTY]
    /\ stdout = <<>>
    /\ stderr = <<>>
    /\ argv \in ArgLists
    /\ stdin = <<>>

\* a join that puts the separator after every element
RECURSIVE JoinTrailing(_, _)
JoinTrailing(elems, sep) ==
    IF elems = <<>> THEN <<>> ELSE Head(elems) \o sep \o JoinTrailing(Tail(elems), sep)

\* strings.Join
RECURSIVE Join(_, _)
Join(elems, sep) ==
    IF elems = <<>> THEN <<>>
    ELSE IF Len(elems) = 1 THEN elems[1]
    ELSE Head(elems) \o sep \o Join(Tail(elems), sep)

\* a write of text
Text(s) == [kind |-> "text", text |-> s]

\* echo.Run, line 12 and 17: the string handed to os.Stdout.WriteString
EchoOutput(args) == Join(args, <<32>>) \o <<10>>

\* echo.Run: the write succeeds and Run returns
EchoRun ==
    /\ pc = "start"
    /\ stdout' = Append(stdout, Text(EchoOutput(argv)))
    /\ pc' = "done"
    /\ UNCHANGED <<longFormat, dir, term, entries, idx, infoLog, names, width, colWidth, cols, clock,
                   stderr, argv, stdin>>

\* echo.Run, lines 17-21: the write fails after k characters and the process
\* exits with status 1
EchoRunWriteError ==
    /\ pc = "start"
    /\ \E k \in 0..(Len(EchoOutput(argv)) - 1) :
        stdout' = IF k = 0 THEN stdout ELSE Append(stdout, Text(SubSeq(EchoOutput(argv), 1, k)))
    /\ pc' = "exit 1"
    /\ UNCHANGED <<longFormat, dir, term, entries, idx, infoLog, names, width, colWidth, cols, clock,
                   stderr, argv, stdin>>

NextEcho ==
    \/ EchoRun
    \/ EchoRunWriteError

SpecEcho == InitEcho /\ [][NextEcho]_vars

\* the offset in the output of argument i: the lengths of the arguments
\* before it and one separator after each
RECURSIVE Offset(_)
Offset(i) == IF i <= 1 THEN 0 ELSE Offset(i - 1) + Len(argv[i - 1]) + 1

\* C15: when echo.Run returns, standard output holds exactly the arguments,
\* a single space after each but the last and a newline after the last;
\* Run(["Hello", "World"]) writes "Hello World\n"
C15_EchoJoinsWithSpaces ==
    pc = "done" =>
        /\ Len(stdout) = 1
        /\ stdout[1].kind = "text"
        /\ LET out == stdout[1].text
               n   == Len(argv)
           IN  /\ Len(out) = (IF n = 0 THEN 1 ELSE Offset(n + 1))
               /\ n = 0 => out = <<10>>
               /\ \A i \in 1..n :
                   /\ SubSeq(out, Offset(i) + 1, Offset(i) + Len(argv[i])) = argv[i]
                   /\ out[Offset(i) + Len(argv[i]) + 1] = (IF i = n THEN 10 ELSE 32)
               /\ argv = << <<72, 101, 108, 108, 111>>, <<87, 111, 114, 108, 100>> >>
                      => out = <<72, 101, 108, 108, 111, 32, 87, 111, 114, 108, 100, 10>>
        /\ stderr = <<>>

\* C15 witness: Run(["Hello", "World"]) has returned
C15_Witness ==
    /\ pc = "done"
    /\ argv = << <<72, 101, 108, 108, 111>>, <<87, 111, 114, 108, 100>> >>
    /\ Len(stdout) = 1

(***************************************************************************)
(* cmd/cat/main.go and cat.Run.  The run uses pc, argv, stdin, term, width  *)
(* (the package variable of cat), idx, stdout and stderr.                  *)
(***************************************************************************)
\* the command lines of the sampled runs (os.Args[1:])
CatArgvs ==
    { <<>>, <<"-n">>, <<"file.txt">>, <<"-n", "file.txt">>, <<"nofile", "file.txt">>,
      <<"file.txt", "other.txt">> }

\* the files that can be opened, as their lines: file.txt holds "ab" and an
\* empty line, other.txt holds "abcd"
Files ==
    ("file.txt" :> << <<97, 98>>, <<>> >>) @@ ("other.txt" :> << <<97, 98, 99, 100>> >>)

\* the contents standard input may have: nothing, "x", or "xyzw" and "w"
StdinContents == { <<>>, << <<120>> >>, << <<120, 121, 122, 119>>, <<119>> >> }

\* the terminals of the sampled runs: standard output is a pipe or a file,
\* or a terminal of some width
CatTerminals ==
    {[stdin |-> NoTTY, stdout |-> t] : t \in {NoTTY, TTY(80), TTY(12), TTY(9), TTY(8), TTY(5)}}

InitCat ==
    /\ pc = "start"
    /\ LsIdle
    /\ term \in CatTerminals
    /\ stdout = <<>>
    /\ stderr = <<>>
    /\ argv \in CatArgvs
    /\ stdin \in StdinContents

\* Run, lines 55-62: the -n flag and the file names
LineNumbers(args) == args # <<>> /\ args[1] = "-n"
FileNames(args) == IF LineNumbers(args) THEN Tail(args) ELSE args

\* the writes of cat
SizeError == [kind |-> "cat: error getting terminal size"]
OpenError(name) == [kind |-> "cat: open", name |-> name]
Header(name, w) == [kind |-> "header", name |-> name, rule |-> w - 8]
Footer(w) == [kind |-> "footer", rule |-> w - 8]
Number(n) == [kind |-> "number", n |-> n]
Continuation == [kind |-> "continuation"]
Line(text) == [kind |-> "line", text |-> text]
Rune(r) == [kind |-> "rune", r |-> r]

\* no writes and no panic
Nothing == [out |-> <<>>, err |-> <<>>, panic |-> FALSE]

\* i % d of Go for i >= 0 and d # 0
GoMod(i, d) == i % (IF d < 0 THEN -d ELSE d)

\* printFromReader, lines 119-125: the characters of a line from byte i on;
\* print and println are the builtins, which write to standard error
RECURSIVE NumberedChars(_, _, _)
NumberedChars(text, i, w) ==
    IF i >= Len(text) THEN Nothing
    ELSE LET wrap == GoMod(i, w - 9) = 0 /\ i # 0
             rest == NumberedChars(text, i + 1, w)
         IN  [out   |-> (IF wrap THEN <<Continuation>> ELSE <<>>) \o rest.out,
              err   |-> (IF wrap THEN <<Newline>> ELSE <<>>) \o <<Rune(text[i + 1])>> \o rest.err,
              panic |-> FALSE]

\* printFromReader, lines 114-130: one numbered line; i % (width - 9) panics
\* on the first character when width is 9
NumberedLine(text, n, w) ==
    IF text # <<>> /\ w = 9 THEN [out |-> <<Number(n)>>, err |-> <<>>, panic |-> TRUE]
    ELSE LET c == NumberedChars(text, 0, w)
         IN  [out |-> <<Number(n)>> \o c.out \o <<Newline>>, err |-> c.err, panic |-> FALSE]

\* printFromReader, lines 111-130: the numbered lines from line n on
RECURSIVE Numbered(_, _, _)
Numbered(lines, n, w) ==
    IF lines = <<>> THEN Nothing
    ELSE LET h == NumberedLine(Head(lines), n, w)
             t == Numbered(Tail(lines), n + 1, w)
         IN  IF h.panic THEN h
             ELSE [out |-> h.out \o t.out, err |-> h.err \o t.err, panic |-> t.panic]

\* printFromReader: what it writes for a reader with the given name and
\* lines; strings.Repeat panics on the negative count width - 8
printFromReader(name, lines, lineNumbers, w) ==
    IF ~lineNumbers THEN [out |-> [i \in 1..Len(lines) |-> Line(lines[i])], err |-> <<>>, panic |-> FALSE]
    ELSE IF w < 8 THEN [out |-> <<>>, err |-> <<>>, panic |-> TRUE]
    ELSE LET body == Numbered(lines, 1, w)
         IN  [out   |-> <<Header(name, w)>> \o body.out \o (IF body.panic THEN <<>> ELSE <<Footer(w)>>),
              err   |-> body.err,
              panic |-> body.panic]

\* main, lines 12-18: without arguments cat.Run is not called
CatMainNoArgs ==
    /\ pc = "start"
    /\ argv = <<>>
    /\ pc' = "done"
    /\ UNCHANGED <<longFormat, dir, term, entries, idx, infoLog, names, width, colWidth, cols, clock,
                   stdout, stderr, argv, stdin>>

\* Run, lines 47-52: standard output is not a terminal
CatRunNoTerminal ==
    /\ pc = "start"
    /\ argv # <<>>
    /\ ~term.stdout.ok
    /\ stderr' = Append(stderr, SizeError)
    /\ pc' = "done"
    /\ UNCHANGED <<longFormat, dir, term, entries, idx, infoLog, names, width, colWidth, cols, clock,
                   stdout, argv, stdin>>

\* Run, lines 47-62: the width is known and the arguments are parsed
CatRunParse ==
    /\ pc = "start"
    /\ argv # <<>>
    /\ term.stdout.ok
    /\ width' = term.stdout.width
    /\ pc' = IF FileNames(argv) = <<>> THEN "stdin" ELSE "files"
    /\ UNCHANGED <<longFormat, dir, term, entries, idx, infoLog, names, colWidth, cols, clock,
                   stdout, stderr, argv, stdin>>

\* Run, lines 64-67: no file is named, standard input is printed
CatStdin ==
    /\ pc = "stdin"
    /\ LET r == printFromReader("/dev/stdin", stdin, LineNumbers(argv), width)
       IN  /\ stdout' = stdout \o r.out
           /\ stderr' = stderr \o r.err
           /\ pc' = IF r.panic THEN "panic" ELSE "done"
    /\ UNCHANGED <<longFormat, dir, term, entries, idx, infoLog, names, width, colWidth, cols, clock,
                   argv, stdin>>

\* Run, lines 70-77, and printFile: the next file is printed
CatFile ==
    /\ pc = "files"
    /\ idx < Len(FileNames(argv))
    /\ LET name == FileNames(argv)[idx + 1]
       IN  /\ name \in DOMAIN Files
           /\ LET r == printFromReader(name, Files[name], LineNumbers(argv), width)
              IN  /\ stdout' = stdout \o r.out
                  /\ stderr' = stderr \o r.err
                  /\ pc' = IF r.panic THEN "panic" ELSE "files"
    /\ idx' = idx + 1
    /\ UNCHANGED <<longFormat, dir, term, entries, infoLog, names, width, colWidth, cols, clock,
                   argv, stdin>>

\* Run, lines 70-77, and printFile: the next file cannot be opened
CatFileError ==
    /\ pc = "files"
    /\ idx < Len(FileNames(argv))
    /\ LET name == FileNames(argv)[idx + 1]
       IN  /\ name \notin DOMAIN Files
           /\ stderr' = Append(stderr, OpenError(name))
    /\ idx' = idx + 1
    /\ UNCHANGED <<pc, longFormat, dir, term, entries, infoLog, names, width, colWidth, cols, clock,
                   stdout, argv, stdin>>

\* Run, lines 70-78: every file was handled
CatReturn ==
    /\ pc = "files"
    /\ idx = Len(FileNames(argv))
    /\ pc' = "done"
    /\ UNCHANGED <<longFormat, dir, term, entries, idx, infoLog, names, width, colWidth, cols, clock,
                   stdout, stderr, argv, stdin>>

NextCat ==
    \/ CatMainNoArgs
    \/ CatRunNoTerminal
    \/ CatRunParse
    \/ CatStdin
    \/ CatFile
    \/ CatFileError
    \/ CatReturn

SpecCat == InitCat /\ [][NextCat]_vars

\* the lines of the files named, in the order they are named
RECURSIVE LinesOfFiles(_)
LinesOfFiles(fs) ==
    IF fs = <<>> THEN <<>>
    ELSE (IF Head(fs) \in DOMAIN Files THEN Files[Head(fs)] ELSE <<>>) \o LinesOfFiles(Tail(fs))

\* the input of a run of cat: the files named, standard input when none is
CatInput == IF FileNames(argv) = <<>> THEN stdin ELSE LinesOfFiles(FileNames(argv))

\* the lines written to standard output, in order
RECURSIVE LinesWritten(_)
LinesWritten(ws) ==
    IF ws = <<>> THEN <<>>
    ELSE (IF Head(ws).kind = "line" THEN <<Head(ws).text>> ELSE <<>>) \o LinesWritten(Tail(ws))

\* C16: when cat is done, standard output holds every line of its input in
\* order, also when cat was started without arguments or standard output is
\* not a terminal
C16_CatCopiesInput == pc = "done" => LinesWritten(stdout) = CatInput

====
